---- MODULE Spec2Model ----
(***************************************************************************)
(* Model of src/section.rs of compressed-vec: the SectionHeader based      *)
(* SectionWriter (add_64kb with rollover), and the FixedSection family     *)
(* (NullFixedSect, NibblePackU64MedFixedSect, NibblePackU32MedFixedSect,   *)
(* FixedSectEnum, FixedSectIterator).                                      *)
(***************************************************************************)
EXTENDS Integers, Sequences, FiniteSets, TLC

VARIABLES
    \* ---- SectionWriter fields (section.rs 104-110) ----
    write_buf,               \* the borrowed output buffer, a sequence of bytes
    cur_pos,                 \* current write position
    cur_header_pos,          \* position of the current section header
    max_elements_per_sect,   \* cap of elements per section
    cur_header,              \* in-memory SectionHeader
    \* ---- position of an add_64kb call and of its filler callback ----
    pc,                      \* "idle" | "filler" | "panicked"
    call_type,               \* sect_type argument of the call in progress
    bytes_left,              \* length of the window handed to the filler
    elements_left,           \* element budget handed to the filler
    result,                  \* what the last finished call returned
    \* ---- history of the call in progress / last call ----
    pre,                     \* writer fields when the call was entered
    n_filler,                \* filler invocations of the call
    n_rollover,              \* section headers opened by rollover in the call
    first_resp,              \* what the first filler invocation of the call answered
    n_calls                  \* calls made so far

VARIABLES
    \* ---- build profile: are integer overflow checks compiled in ----
    overflow_checks,
    \* ---- a caller writing FixedSections into out_buf and reading them ----
    out_buf,                 \* bytes of the output buffer written so far; the
                             \* rest of the zero-initialised buffer is implicit
    out_cap,                 \* length of the output buffer
    off,                     \* offset handed to the next write
    sections,                \* what the successful writes were given
    wres,                    \* what the last write returned
    rb,                      \* what reading the last section back gave
    phase,                   \* "write" | "iter"
    it_pos,                  \* FixedSectIterator: start of encoded_bytes
    it_end,                  \* FixedSectIterator: end of encoded_bytes
    items,                   \* items yielded so far
    it_res,                  \* what the last next() returned
    \* ---- one application of a Medium try_from to a slice ----
    tf_slice,
    tf_kind,
    tf_res

fvars == <<overflow_checks, out_buf, out_cap, off, sections, wres, rb, phase,
           it_pos, it_end, items, it_res>>

tvars == <<tf_slice, tf_kind, tf_res>>

wvars == <<write_buf, cur_pos, cur_header_pos, max_elements_per_sect, cur_header,
           pc, call_type, bytes_left, elements_left, result,
           pre, n_filler, n_rollover, first_resp, n_calls>>

vars == <<wvars, fvars, tvars>>

----------------------------------------------------------------------------
\* Bounds of the exploration
MaxBuf == 15          \* longest output buffer
MaxCalls == 2         \* add_64kb calls per behaviour
MaxCap == 1           \* largest max_elements_per_sect
MaxFillerElems == 2   \* largest element count a filler reports

\* Program constants
U16Max == 65535       \* literal of bytes_left, and the range of u16
HeaderLen == 5        \* encoded size of SectionHeader: u16 + u16 + u8

Null == 0
NibblePackedU64Medium == 1
NibblePackedU32Medium == 2
SectionTypes == {Null, NibblePackedU64Medium, NibblePackedU32Medium}

FillBytes == {255}    \* byte values a filler stores into its window

\* the sect_type arguments the callers pass
CallTypes == {Null, NibblePackedU32Medium}

Min(a, b) == IF a <= b THEN a ELSE b

----------------------------------------------------------------------------
\* scroll: little-endian codecs and pwrite_with on a byte slice

U16LE(n) == <<n % 256, n \div 256>>

ReadU16LE(buf, pos) == buf[pos + 1] + 256 * buf[pos + 2]

\* pwrite_with of one scalar whose encoding is bytes, at 0-based offset pos:
\* fails, writing nothing, unless the whole scalar fits
PwriteScalar(buf, bytes, pos) ==
    IF pos < Len(buf) /\ pos + Len(bytes) <= Len(buf)
    THEN [ok |-> TRUE,
          buf |-> SubSeq(buf, 1, pos) \o bytes
                    \o SubSeq(buf, pos + Len(bytes) + 1, Len(buf))]
    ELSE [ok |-> FALSE, buf |-> buf]

\* pwrite_with of a SectionHeader (derive(Pwrite)): the fields are written
\* one after the other, so a header that does not fit leaves the fields
\* that did fit in the buffer
PwriteHeader(buf, h, pos) ==
    LET r1 == PwriteScalar(buf, U16LE(h.num_bytes), pos)
        r2 == PwriteScalar(r1.buf, U16LE(h.num_elements), pos + 2)
        r3 == PwriteScalar(r2.buf, <<h.typ>>, pos + 4)
    IN  IF ~r1.ok THEN r1 ELSE IF ~r2.ok THEN r2 ELSE r3

\* pread_with of a SectionHeader at pos (needs pos + 5 <= Len(buf))
PreadHeader(buf, pos) ==
    [num_bytes |-> ReadU16LE(buf, pos),
     num_elements |-> ReadU16LE(buf, pos + 2),
     typ |-> buf[pos + 5]]

\* conversion of a scroll error (BadOffset / TooBig) into CodingError
FromScrollError == "NotEnoughSpace"

----------------------------------------------------------------------------
\* SectionWriter

\* the fields a call can be compared against afterwards
Snapshot == [cur_pos |-> cur_pos, cur_header_pos |-> cur_header_pos,
             cur_header |-> cur_header]

Self == [write_buf |-> write_buf, cur_pos |-> cur_pos,
         cur_header_pos |-> cur_header_pos,
         max_elements_per_sect |-> max_elements_per_sect,
         cur_header |-> cur_header]

new(buf, cap) ==
    [write_buf |-> buf, cur_pos |-> 0, cur_header_pos |-> 0,
     max_elements_per_sect |-> cap,
     cur_header |-> [num_bytes |-> 0, num_elements |-> 0, typ |-> Null]]

\* update_sect_header writing at the write position instead of the header's
update_sect_header_AtCurPos(w) ==
    LET r == PwriteHeader(w.write_buf, w.cur_header, w.cur_pos)
    IN  [ok |-> r.ok, w |-> [w EXCEPT !.write_buf = r.buf]]

update_sect_header(w) ==
    LET r == PwriteHeader(w.write_buf, w.cur_header, w.cur_header_pos)
    IN  [ok |-> r.ok, w |-> [w EXCEPT !.write_buf = r.buf]]

\* init_new_section that forgets to take the type of the new section
init_new_section_KeepTyp(w, sect_type) ==
    LET w1 == [w EXCEPT !.cur_header = [num_bytes |-> 0, num_elements |-> 0,
                                        typ |-> w.cur_header.typ],
                        !.cur_header_pos = w.cur_pos]
        r == update_sect_header(w1)
    IN  IF r.ok THEN [ok |-> TRUE, w |-> [r.w EXCEPT !.cur_pos = @ + HeaderLen]]
        ELSE [ok |-> FALSE, w |-> r.w]

\* init_new_section that leaves cur_header_pos at the previous section
init_new_section_KeepPos(w, sect_type) ==
    LET w1 == [w EXCEPT !.cur_header = [num_bytes |-> 0, num_elements |-> 0,
                                        typ |-> sect_type]]
        r == update_sect_header(w1)
    IN  IF r.ok THEN [ok |-> TRUE, w |-> [r.w EXCEPT !.cur_pos = @ + HeaderLen]]
        ELSE [ok |-> FALSE, w |-> r.w]

\* init_new_section that counts one byte less than the header it wrote
init_new_section_Advance4(w, sect_type) ==
    LET w1 == [w EXCEPT !.cur_header = [num_bytes |-> 0, num_elements |-> 0,
                                        typ |-> sect_type],
                        !.cur_header_pos = w.cur_pos]
        r == update_sect_header(w1)
    IN  IF r.ok THEN [ok |-> TRUE, w |-> [r.w EXCEPT !.cur_pos = @ + HeaderLen - 1]]
        ELSE [ok |-> FALSE, w |-> r.w]

init_new_section(w, sect_type) ==
    LET w1 == [w EXCEPT !.cur_header = [num_bytes |-> 0, num_elements |-> 0,
                                        typ |-> sect_type],
                        !.cur_header_pos = w.cur_pos]
        r == update_sect_header(w1)
    IN  IF r.ok THEN [ok |-> TRUE, w |-> [r.w EXCEPT !.cur_pos = @ + HeaderLen]]
        ELSE [ok |-> FALSE, w |-> r.w]

\* the filler stores k bytes of value v at the start of its window
FillWindow(buf, pos, k, v) ==
    SubSeq(buf, 1, pos) \o [i \in 1..k |-> v] \o SubSeq(buf, pos + k + 1, Len(buf))

Install(w) ==
    /\ write_buf' = w.write_buf
    /\ cur_pos' = w.cur_pos
    /\ cur_header_pos' = w.cur_header_pos
    /\ max_elements_per_sect' = w.max_elements_per_sect
    /\ cur_header' = w.cur_header

Return(r) ==
    /\ pc' = "idle"
    /\ result' = r
    /\ UNCHANGED <<bytes_left, elements_left>>

\* line 151 retyping the open section to the call's sect_type
OpenIfEmpty_Retype(w, sect_type) ==
    IF w.cur_pos = 0 THEN init_new_section(w, sect_type)
    ELSE [ok |-> TRUE, w |-> [w EXCEPT !.cur_header.typ = sect_type]]

\* line 151 left out: the filler is asked although no section is open
OpenIfEmpty_Never(w, sect_type) == [ok |-> TRUE, w |-> w]

\* line 151 without its cur_pos == 0 test
OpenIfEmpty_Always(w, sect_type) == init_new_section(w, sect_type)

\* add_64kb line 151: open the first section if none is open
OpenIfEmpty(w, sect_type) ==
    IF w.cur_pos = 0 THEN init_new_section(w, sect_type)
    ELSE [ok |-> TRUE, w |-> w]

\* line 153 forgetting the elements the section already holds
ElementsLeft_WholeCap(w) == w.max_elements_per_sect

\* add_64kb line 153: the element budget (u16 subtraction)
ElementsLeft(w) == w.max_elements_per_sect - w.cur_header.num_elements

\* lines 155-156 forgetting the bytes the section already holds
BytesLeft_NoSectionCap(w) == Len(w.write_buf) - w.cur_pos

\* add_64kb lines 155-156: the byte budget
BytesLeft(w) == Min(U16Max - w.cur_header.num_bytes, Len(w.write_buf) - w.cur_pos)

\* add_64kb lines 150-160: open the first section if none is, compute the
\* budgets and hand the window to the filler
EnterAdd(w, sect_type, nf) ==
    LET r == OpenIfEmpty(w, sect_type)
    IN  IF ~r.ok
        THEN /\ Install(r.w)
             /\ Return([kind |-> "Err", err |-> FromScrollError])
             /\ n_filler' = nf
        ELSE /\ Install(r.w)
             /\ elements_left' = ElementsLeft(r.w)
             /\ bytes_left' = BytesLeft(r.w)
             /\ pc' = "filler"
             /\ n_filler' = nf + 1
             /\ UNCHANGED result

add_64kb(sect_type) ==
    /\ pc = "idle"
    /\ UNCHANGED <<fvars, tvars>>
    /\ n_calls < MaxCalls
    /\ n_calls' = n_calls + 1
    /\ call_type' = sect_type
    /\ pre' = Snapshot
    /\ n_rollover' = 0
    /\ first_resp' = "none"
    /\ EnterAdd(Self, sect_type, 0)

NoteResp(r) == first_resp' = IF n_filler = 1 THEN r ELSE first_resp

\* lines 162-171: the filler answers Ok((b, e)) within its budgets
FillerOk(b, e, v) ==
    /\ pc = "filler"
    /\ UNCHANGED <<fvars, tvars>>
    /\ b <= bytes_left
    /\ e <= elements_left
    /\ LET w0 == [Self EXCEPT !.write_buf = FillWindow(write_buf, cur_pos, b, v)]
           w1 == [w0 EXCEPT !.cur_header.num_bytes = (@ + b) % (U16Max + 1),
                            !.cur_header.num_elements = (@ + e) % (U16Max + 1),
                            !.cur_pos = @ + b]
           r == update_sect_header(w1)
       IN  /\ Install(r.w)
           /\ IF r.ok THEN Return([kind |-> "Ok", bytes |-> b, elems |-> e])
              ELSE Return([kind |-> "Err", err |-> FromScrollError])
    /\ NoteResp("Ok")
    /\ UNCHANGED <<call_type, pre, n_filler, n_rollover, n_calls>>

\* line 163: the filler reports more elements than its budget
FillerOverCap(b, e, v) ==
    /\ pc = "filler"
    /\ UNCHANGED <<fvars, tvars>>
    /\ b <= bytes_left
    /\ e > elements_left
    /\ write_buf' = FillWindow(write_buf, cur_pos, b, v)
    /\ pc' = "panicked"
    /\ result' = [kind |-> "Panic"]
    /\ NoteResp("Ok")
    /\ UNCHANGED <<cur_pos, cur_header_pos, max_elements_per_sect, cur_header,
                   call_type, bytes_left, elements_left, pre, n_filler,
                   n_rollover, n_calls>>

\* lines 172-178: the filler answers NotEnoughSpace (having stored s bytes)
FillerNotEnoughSpace(s, v) ==
    /\ pc = "filler"
    /\ UNCHANGED <<fvars, tvars>>
    /\ s <= bytes_left
    /\ LET w0 == [Self EXCEPT !.write_buf = FillWindow(write_buf, cur_pos, s, v)]
           r == init_new_section(w0, call_type)
       IN  IF ~r.ok
           THEN /\ Install(r.w)
                /\ Return([kind |-> "Err", err |-> FromScrollError])
                /\ UNCHANGED <<n_filler, n_rollover>>
           ELSE /\ EnterAdd(r.w, call_type, n_filler)
                /\ n_rollover' = n_rollover + 1
    /\ NoteResp("NotEnoughSpace")
    /\ UNCHANGED <<call_type, pre, n_calls>>

\* line 179: the filler answers another error
FillerOtherErr(s, v) ==
    /\ pc = "filler"
    /\ UNCHANGED <<fvars, tvars>>
    /\ s <= bytes_left
    /\ write_buf' = FillWindow(write_buf, cur_pos, s, v)
    /\ Return([kind |-> "Err", err |-> "Other"])
    /\ NoteResp("Other")
    /\ UNCHANGED <<cur_pos, cur_header_pos, max_elements_per_sect, cur_header,
                   call_type, pre, n_filler, n_rollover, n_calls>>

FixedIdle_NoProfile ==
    /\ out_buf = <<>>
    /\ out_cap = 0
    /\ off = 0
    /\ sections = <<>>
    /\ wres = [kind |-> "none"]
    /\ rb = [kind |-> "none"]
    /\ phase = "write"
    /\ it_pos = 0
    /\ it_end = 0
    /\ items = <<>>
    /\ it_res = "none"

FixedIdle == overflow_checks = FALSE /\ FixedIdle_NoProfile

TryFromIdle ==
    /\ tf_slice = [len |-> 0, head |-> <<>>]
    /\ tf_kind = Null
    /\ tf_res = [kind |-> "none"]

Init ==
    /\ FixedIdle
    /\ TryFromIdle
    /\ \E n \in 0..MaxBuf, cap \in 0..MaxCap :
          LET w == new([i \in 1..n |-> 0], cap)
          IN  /\ write_buf = w.write_buf
              /\ cur_pos = w.cur_pos
              /\ cur_header_pos = w.cur_header_pos
              /\ max_elements_per_sect = w.max_elements_per_sect
              /\ cur_header = w.cur_header
    /\ pc = "idle"
    /\ call_type = Null
    /\ bytes_left = 0
    /\ elements_left = 0
    /\ result = [kind |-> "none"]
    /\ pre = Snapshot
    /\ n_filler = 0
    /\ n_rollover = 0
    /\ first_resp = "none"
    /\ n_calls = 0

Next ==
    \/ \E t \in CallTypes : add_64kb(t)
    \/ \E b \in 0..bytes_left, e \in 0..MaxFillerElems, v \in FillBytes : FillerOk(b, e, v)
    \/ \E b \in 0..bytes_left, e \in 0..MaxFillerElems, v \in FillBytes : FillerOverCap(b, e, v)
    \/ \E s \in 0..bytes_left, v \in FillBytes : FillerNotEnoughSpace(s, v)
    \/ \E s \in 0..bytes_left, v \in FillBytes : FillerOtherErr(s, v)

Spec == Init /\ [][Next]_vars

----------------------------------------------------------------------------
\* The writer on a buffer wider than one section can get, with fillers that
\* take nothing or all of their window, and all of it when it is wider than
\* MaxBuf

WideBuf == 65545      \* a header, a full section, and room for one more header
MaxWideRollovers == 1 \* rollovers followed within one call

WideLens == {HeaderLen + 1, 2 * HeaderLen + 1, WideBuf}

EdgeCounts(n) == IF n > MaxBuf THEN {n} ELSE {0, n}

InitWide ==
    /\ FixedIdle
    /\ TryFromIdle
    /\ \E n \in WideLens, cap \in 0..MaxCap :
          LET w == new([i \in 1..n |-> 0], cap)
          IN  /\ write_buf = w.write_buf
              /\ cur_pos = w.cur_pos
              /\ cur_header_pos = w.cur_header_pos
              /\ max_elements_per_sect = w.max_elements_per_sect
              /\ cur_header = w.cur_header
    /\ pc = "idle"
    /\ call_type = Null
    /\ bytes_left = 0
    /\ elements_left = 0
    /\ result = [kind |-> "none"]
    /\ pre = Snapshot
    /\ n_filler = 0
    /\ n_rollover = 0
    /\ first_resp = "none"
    /\ n_calls = 0

NextWide ==
    \/ \E t \in CallTypes : add_64kb(t)
    \/ \E b \in EdgeCounts(bytes_left), e \in 0..MaxFillerElems, v \in FillBytes :
          FillerOk(b, e, v)
    \/ \E b \in EdgeCounts(bytes_left), e \in 0..MaxFillerElems, v \in FillBytes :
          FillerOverCap(b, e, v)
    \/ \E s \in EdgeCounts(bytes_left), v \in FillBytes :
          n_rollover < MaxWideRollovers /\ FillerNotEnoughSpace(s, v)
    \/ \E s \in EdgeCounts(bytes_left), v \in FillBytes : FillerOtherErr(s, v)

SpecWide == InitWide /\ [][NextWide]_vars

----------------------------------------------------------------------------
\* FixedSections: values, and the nibble packing primitives

FIXED_LEN == 256
GroupLen == 8             \* nibble_pack8 / unpack8 work on groups of 8
U64Bytes == 8
U32Bytes == 4

Max(a, b) == IF a >= b THEN a ELSE b

Zeros(n) == [i \in 1..n |-> 0]

\* a u64 is its 8 little-endian bytes, a u32 its 4
Widen(v) == v \o Zeros(U64Bytes - Len(v))         \* x as u64
Narrow(v) == SubSeq(v, 1, U32Bytes)               \* the u32 lanes of the sink

\* the i-th (0-based) element of the input arrays the caller writes
ValueAt(pat, width, i) ==
    CASE pat = "zero" -> Zeros(width)
      [] pat = "ramp" -> <<i>> \o Zeros(width - 1)
      [] pat = "max" -> [j \in 1..width |-> 255]
      [] pat = "mixed" -> [j \in 1..width |->
                             IF j <= i % (width + 1) THEN ((i + j) % 255) + 1 ELSE 0]

Values(pat, width) == [i \in 1..FIXED_LEN |-> ValueAt(pat, width, i - 1)]

Patterns == {"zero", "ramp", "max", "mixed"}

RECURSIVE SigBytes(_, _)
SigBytes(v, j) == IF j = 0 THEN 0 ELSE IF v[j] # 0 THEN j ELSE SigBytes(v, j - 1)

RECURSIVE Pow2(_)
Pow2(n) == IF n = 0 THEN 1 ELSE 2 * Pow2(n - 1)

Bit(mask, i) == (mask \div Pow2(i - 1)) % 2

RECURSIVE SumTo(_, _)
SumTo(f, n) == IF n = 0 THEN 0 ELSE f[n] + SumTo(f, n - 1)

RECURSIVE MaxTo(_, _)
MaxTo(f, n) == IF n = 0 THEN 0 ELSE Max(f[n], MaxTo(f, n - 1))

RECURSIVE Concat(_, _)
Concat(f, n) == IF n = 0 THEN <<>> ELSE Concat(f, n - 1) \o f[n]

\* the encoding of one group of 8 u64: a mask of the nonzero values, then
\* (unless all are zero) the byte width of the widest and the nonzero values
\* at that width
Pack8(chunk) ==
    LET mask == SumTo([i \in 1..GroupLen |->
                         IF SigBytes(chunk[i], U64Bytes) > 0 THEN Pow2(i - 1) ELSE 0],
                      GroupLen)
        nb == MaxTo([i \in 1..GroupLen |-> SigBytes(chunk[i], U64Bytes)], GroupLen)
    IN  IF mask = 0 THEN <<0>>
        ELSE <<mask, nb>> \o
             Concat([i \in 1..GroupLen |->
                       IF Bit(mask, i) = 1 THEN SubSeq(chunk[i], 1, nb) ELSE <<>>],
                    GroupLen)

----------------------------------------------------------------------------
\* The output buffer of the FixedSection writers.  A buffer of tens of
\* thousands of bytes is kept run-length encoded: buf is the sequence of runs
\* <<byte, end>> (end = offset just past the run) up to the last nonzero
\* byte; the bytes from there to cap are zero, as the caller allocated them.

BufLen(buf) == IF buf = <<>> THEN 0 ELSE buf[Len(buf)][2]

\* the smallest k in lo..hi whose run ends past offset i
RECURSIVE FindRun(_, _, _, _)
FindRun(buf, i, lo, hi) ==
    IF lo >= hi THEN lo
    ELSE LET mid == (lo + hi) \div 2
         IN  IF buf[mid][2] > i THEN FindRun(buf, i, lo, mid)
             ELSE FindRun(buf, i, mid + 1, hi)

\* the run that holds offset i < BufLen(buf)
RunAt(buf, i) == FindRun(buf, i, 1, Len(buf))

\* the byte at 0-based offset i
BufAt(buf, i) == IF i < BufLen(buf) THEN buf[RunAt(buf, i)][1] ELSE 0

DiffersFromNext(t) == t[1] # t[3]

\* the runs of the plain byte sequence bytes laid at offset base
Encode(bytes, base) ==
    LET idx == [i \in 1..Len(bytes) |->
                  <<bytes[i], base + i, IF i < Len(bytes) THEN bytes[i + 1] ELSE -1>>]
        kept == SelectSeq(idx, DiffersFromNext)
    IN  [k \in 1..Len(kept) |-> <<kept[k][1], kept[k][2]>>]

\* a \o b, as one run where a ends with the byte b starts with
Join(a, b) ==
    IF a # <<>> /\ b # <<>> /\ a[Len(a)][1] = b[1][1]
    THEN SubSeq(a, 1, Len(a) - 1) \o b
    ELSE a \o b

\* without a trailing run of zeros
Strip(runs) ==
    IF runs # <<>> /\ runs[Len(runs)][1] = 0 THEN SubSeq(runs, 1, Len(runs) - 1)
    ELSE runs

\* buf with bytes stored at offset pos
PutSeq(buf, pos, bytes) ==
    LET e == pos + Len(bytes)
        head == IF BufLen(buf) <= pos
                THEN IF BufLen(buf) < pos THEN Append(buf, <<0, pos>>) ELSE buf
                ELSE LET k == RunAt(buf, pos)
                         from == IF k = 1 THEN 0 ELSE buf[k - 1][2]
                     IN  IF from < pos
                         THEN Append(SubSeq(buf, 1, k - 1), <<buf[k][1], pos>>)
                         ELSE SubSeq(buf, 1, k - 1)
        tail == IF BufLen(buf) <= e THEN <<>>
                ELSE SubSeq(buf, RunAt(buf, e), Len(buf))
    IN  Strip(Join(Join(head, Encode(bytes, pos)), tail))

\* the plain bytes buf[from..to]
Bytes(buf, from, to) == [i \in 1..(to - from) |-> BufAt(buf, from + i - 1)]

\* pwrite_with of one scalar into out_buf[..cap]
PwriteFx(buf, cap, bytes, pos) ==
    IF pos < cap /\ pos + Len(bytes) <= cap
    THEN [ok |-> TRUE, buf |-> PutSeq(buf, pos, bytes)]
    ELSE [ok |-> FALSE, buf |-> buf]

\* nibble_pack8(chunk, out_buf, off): the new offset, or NotEnoughSpace after
\* storing the bytes that fit
nibble_pack8(chunk, buf, cap, o) ==
    LET enc == Pack8(chunk)
    IN  IF o + Len(enc) <= cap
        THEN [ok |-> TRUE, buf |-> PutSeq(buf, o, enc), off |-> o + Len(enc)]
        ELSE [ok |-> FALSE,
              buf |-> IF o < cap THEN PutSeq(buf, o, SubSeq(enc, 1, cap - o)) ELSE buf,
              off |-> o]

\* the loop of write: groups i+1 .. 32 of values, each through nibble_pack8
RECURSIVE PackGroups(_, _, _, _, _)
PackGroups(values, buf, cap, o, i) ==
    IF i = FIXED_LEN \div GroupLen THEN [ok |-> TRUE, buf |-> buf, off |-> o]
    ELSE LET chunk == [k \in 1..GroupLen |-> values[i * GroupLen + k]]
             r == nibble_pack8(chunk, buf, cap, o)
         IN  IF r.ok THEN PackGroups(values, r.buf, cap, r.off, i + 1) ELSE r

\* pack_u64(values_iter, out_buf, offset): the bulk encoder, group by group
pack_u64(values, buf, cap, o) == PackGroups(values, buf, cap, o, 0)

\* one group read back from the plain bytes s at 0-based offset pos
Unpack8(s, pos) ==
    IF pos >= Len(s) THEN [ok |-> FALSE]
    ELSE LET mask == s[pos + 1]
         IN  IF mask = 0
             THEN [ok |-> TRUE, values |-> [i \in 1..GroupLen |-> Zeros(U64Bytes)],
                   pos |-> pos + 1]
             ELSE IF pos + 1 >= Len(s) THEN [ok |-> FALSE]
             ELSE LET nb == s[pos + 2]
                      rank == [i \in 1..GroupLen |->
                                 SumTo([k \in 1..GroupLen |->
                                          IF k < i THEN Bit(mask, k) ELSE 0], GroupLen)]
                      cnt == SumTo([k \in 1..GroupLen |-> Bit(mask, k)], GroupLen)
                  IN  IF pos + 2 + cnt * nb > Len(s) \/ nb > U64Bytes THEN [ok |-> FALSE]
                      ELSE [ok |-> TRUE,
                            values |-> [i \in 1..GroupLen |->
                               IF Bit(mask, i) = 1
                               THEN [j \in 1..U64Bytes |->
                                       IF j <= nb
                                       THEN s[pos + 2 + rank[i] * nb + j]
                                       ELSE 0]
                               ELSE Zeros(U64Bytes)],
                            pos |-> pos + 2 + cnt * nb]

\* groups read one after the other until n values were produced or the input
\* ends
RECURSIVE UnpackValues(_, _, _)
UnpackValues(s, pos, n) ==
    IF n = 0 THEN [ok |-> TRUE, values |-> <<>>]
    ELSE LET r == Unpack8(s, pos)
         IN  IF ~r.ok THEN [ok |-> FALSE, values |-> <<>>]
             ELSE LET rest == UnpackValues(s, r.pos, n - GroupLen)
                  IN  [ok |-> rest.ok, values |-> r.values \o rest.values]

----------------------------------------------------------------------------
\* FixedSection readers and writers

\* a byte slice buf[from..to], as far as the constructors look at it: its
\* length and its first three bytes
Slice(buf, from, to) ==
    [len |-> to - from,
     head |-> [i \in 1..Min(3, to - from) |-> BufAt(buf, from + i - 1)]]

\* try_from that takes the byte 0 for no section type
SectionType_try_from_NoNull(n) ==
    IF n \in SectionTypes \ {Null} THEN [kind |-> "Ok", typ |-> n]
    ELSE [kind |-> "Err", err |-> "InvalidSectionType", byte |-> n]

SectionType_try_from(n) ==
    IF n \in SectionTypes THEN [kind |-> "Ok", typ |-> n]
    ELSE [kind |-> "Err", err |-> "InvalidSectionType", byte |-> n]

\* lines 280-284: pread_with::<u16>(1), then (n + 3) <= len as u16 in u16
\* arithmetic; n + 3 past u16 panics where overflow checks are compiled in and
\* wraps where they are not
MedLengthCheck(sl, oc) ==
    IF ~(1 < sl.len /\ 1 + 2 <= sl.len) THEN [kind |-> "Err", err |-> "Scroll"]
    ELSE LET n == sl.head[2] + 256 * sl.head[3]
         IN  IF n + 3 > U16Max /\ oc THEN [kind |-> "Panic"]
             ELSE IF (n + 3) % (U16Max + 1) <= sl.len % (U16Max + 1)
                  THEN [kind |-> "Ok", encoded_bytes |-> n]
                  ELSE [kind |-> "Err", err |-> "Scroll"]

NibblePackU64MedFixedSect_try_from(sl, oc) ==
    LET r == MedLengthCheck(sl, oc)
    IN  IF r.kind = "Ok"
        THEN [kind |-> "Ok", variant |-> NibblePackedU64Medium,
              encoded_bytes |-> r.encoded_bytes]
        ELSE r

NibblePackU32MedFixedSect_try_from(sl, oc) ==
    LET r == MedLengthCheck(sl, oc)
    IN  IF r.kind = "Ok"
        THEN [kind |-> "Ok", variant |-> NibblePackedU32Medium,
              encoded_bytes |-> r.encoded_bytes]
        ELSE r

FixedSectEnum_try_from(sl, oc) ==
    IF sl.len <= 0 THEN [kind |-> "Err", err |-> "InputTooShort"]
    ELSE LET t == SectionType_try_from(sl.head[1])
         IN  IF t.kind = "Err" THEN t
             ELSE IF t.typ = Null
                  THEN [kind |-> "Ok", variant |-> Null, encoded_bytes |-> 0]
             ELSE IF t.typ = NibblePackedU64Medium
                  THEN NibblePackU64MedFixedSect_try_from(sl, oc)
             ELSE NibblePackU32MedFixedSect_try_from(sl, oc)

\* num_bytes that leaves out the tag and the length field
num_bytes_NoHeader(fse) == IF fse.variant = Null THEN 1 ELSE fse.encoded_bytes

\* FixedSection::num_bytes of the three variants
num_bytes(fse) == IF fse.variant = Null THEN 1 ELSE fse.encoded_bytes + 3

num_elements(fse) == FIXED_LEN

\* write that reports the offset of the tag instead of the one behind it
NullFixedSect_write_NoAdvance(buf, cap, offset) ==
    LET r == PwriteFx(buf, cap, <<Null>>, offset)
    IN  IF r.ok THEN [kind |-> "Ok", buf |-> r.buf, off |-> offset]
        ELSE [kind |-> "Err", err |-> FromScrollError, buf |-> r.buf]

NullFixedSect_write(buf, cap, offset) ==
    LET r == PwriteFx(buf, cap, <<Null>>, offset)
    IN  IF r.ok THEN [kind |-> "Ok", buf |-> r.buf, off |-> offset + 1]
        ELSE [kind |-> "Err", err |-> FromScrollError, buf |-> r.buf]

\* the length field counting the three header bytes as well
FinishMedWrite_WithHeader(buf, cap, offset, o) ==
    LET nb == o - offset
    IN  IF nb <= U16Max
        THEN LET r == PwriteFx(buf, cap, U16LE(nb), offset + 1)
             IN  IF r.ok THEN [kind |-> "Ok", buf |-> r.buf, off |-> o]
                 ELSE [kind |-> "Err", err |-> FromScrollError, buf |-> r.buf]
        ELSE [kind |-> "Err", err |-> "NotEnoughSpace", buf |-> buf]

\* lines 306-312, shared by both Medium writers: the length goes in last
FinishMedWrite(buf, cap, offset, o) ==
    LET nb == o - offset - 3
    IN  IF nb <= U16Max
        THEN LET r == PwriteFx(buf, cap, U16LE(nb), offset + 1)
             IN  IF r.ok THEN [kind |-> "Ok", buf |-> r.buf, off |-> o]
                 ELSE [kind |-> "Err", err |-> FromScrollError, buf |-> r.buf]
        ELSE [kind |-> "Err", err |-> "NotEnoughSpace", buf |-> buf]

\* write that reserves the length field with zeros before the payload
NibblePackU64MedFixedSect_write_LenFirst(buf, cap, offset, values) ==
    LET r0 == PwriteFx(buf, cap, <<NibblePackedU64Medium>>, offset)
        rl == PwriteFx(r0.buf, cap, U16LE(0), offset + 1)
    IN  IF ~r0.ok THEN [kind |-> "Err", err |-> FromScrollError, buf |-> r0.buf]
        ELSE LET r1 == PackGroups(values, rl.buf, cap, offset + 3, 0)
             IN  IF ~r1.ok THEN [kind |-> "Err", err |-> "NotEnoughSpace", buf |-> r1.buf]
                 ELSE FinishMedWrite(r1.buf, cap, offset, r1.off)

NibblePackU64MedFixedSect_write(buf, cap, offset, values) ==
    LET r0 == PwriteFx(buf, cap, <<NibblePackedU64Medium>>, offset)
    IN  IF ~r0.ok THEN [kind |-> "Err", err |-> FromScrollError, buf |-> r0.buf]
        ELSE LET r1 == PackGroups(values, r0.buf, cap, offset + 3, 0)
             IN  IF ~r1.ok THEN [kind |-> "Err", err |-> "NotEnoughSpace", buf |-> r1.buf]
                 ELSE FinishMedWrite(r1.buf, cap, offset, r1.off)

NibblePackU32MedFixedSect_write(buf, cap, offset, values) ==
    LET r0 == PwriteFx(buf, cap, <<NibblePackedU32Medium>>, offset)
    IN  IF ~r0.ok THEN [kind |-> "Err", err |-> FromScrollError, buf |-> r0.buf]
        ELSE LET r1 == pack_u64([i \in 1..Len(values) |-> Widen(values[i])],
                                r0.buf, cap, offset + 3)
             IN  IF ~r1.ok THEN [kind |-> "Err", err |-> "NotEnoughSpace", buf |-> r1.buf]
                 ELSE FinishMedWrite(r1.buf, cap, offset, r1.off)

\* iter that starts decoding at the length field's second byte
NibblePackU64MedFixedSect_iter_From2(sect_bytes) ==
    UnpackValues(sect_bytes, 2, FIXED_LEN).values

\* iter(sect_bytes): IterU64Sink over sect_bytes[3..], up to FIXED_LEN values
NibblePackU64MedFixedSect_iter(sect_bytes) ==
    UnpackValues(sect_bytes, 3, FIXED_LEN).values

\* decode_to_sink(sect_bytes, output) into a U32_256Sink, 8 values a stride
NibblePackU32MedFixedSect_decode_to_sink(sect_bytes) ==
    LET r == UnpackValues(sect_bytes, 3, FIXED_LEN)
    IN  IF r.ok THEN [ok |-> TRUE,
                      values |-> [i \in 1..Len(r.values) |-> Narrow(r.values[i])]]
        ELSE [ok |-> FALSE, values |-> <<>>]

\* unpack_u32_section(buf): decode_to_sink(..).unwrap(), then the sink's array
unpack_u32_section(buf) ==
    LET r == NibblePackU32MedFixedSect_decode_to_sink(buf)
    IN  IF r.ok THEN [kind |-> "Ok", values |-> r.values] ELSE [kind |-> "Panic"]

----------------------------------------------------------------------------
\* A caller of the FixedSection API: writes at consecutive offsets, reads the
\* last section back, iterates over what was written

MaxSects == 2         \* sections of any kind and input in one buffer
MaxDeepSects == 31    \* sections in a buffer of widest u64 sections only
MaxTinyCap == 4       \* the short output buffers are 0..MaxTinyCap long
MidCap == 100         \* an output buffer too short for most encodings
BigCap == 70000       \* an output buffer longer than 64 KiB

FxCaps == (0..MaxTinyCap) \cup {MidCap, BigCap}

Last(q) == q[Len(q)]

MayWrite(variant, pat) ==
    /\ phase = "write"
    /\ \/ Len(sections) < MaxSects
       \/ /\ Len(sections) < MaxDeepSects
          /\ variant = NibblePackedU64Medium /\ pat = "max"
          /\ \A i \in 1..Len(sections) :
                sections[i].variant = NibblePackedU64Medium /\ sections[i].pat = "max"

\* the caller's bookkeeping after a write returned r; wres also keeps what
\* was asked for, the offset it was asked at and, for a write that failed,
\* the two bytes found behind that offset before the call
AfterWrite(r, variant, pat) ==
    /\ out_buf' = r.buf
    /\ rb' = [kind |-> "none"]
    /\ IF r.kind = "Ok"
       THEN /\ off' = r.off
            /\ wres' = [kind |-> "Ok", off |-> r.off, variant |-> variant,
                        pat |-> pat, at |-> off]
            /\ sections' = Append(sections, [variant |-> variant, pat |-> pat,
                                             start |-> off, end |-> r.off])
       ELSE /\ wres' = [kind |-> "Err", err |-> r.err, variant |-> variant,
                        pat |-> pat, at |-> off,
                        len_before |-> Bytes(out_buf, off + 1, off + 3)]
            /\ UNCHANGED <<off, sections>>
    /\ UNCHANGED <<overflow_checks, out_cap, phase, it_pos, it_end, items, it_res>>
    /\ UNCHANGED <<wvars, tvars>>

WriteNull ==
    /\ MayWrite(Null, "zero")
    /\ AfterWrite(NullFixedSect_write(out_buf, out_cap, off), Null, "zero")

WriteU64(pat) ==
    /\ MayWrite(NibblePackedU64Medium, pat)
    /\ AfterWrite(NibblePackU64MedFixedSect_write(out_buf, out_cap, off,
                                                  Values(pat, U64Bytes)),
                  NibblePackedU64Medium, pat)

WriteU32(pat) ==
    /\ MayWrite(NibblePackedU32Medium, pat)
    /\ AfterWrite(NibblePackU32MedFixedSect_write(out_buf, out_cap, off,
                                                  Values(pat, U32Bytes)),
                  NibblePackedU32Medium, pat)

\* the caller reads the section it just wrote from out_buf[start..off]
ReadBack ==
    /\ phase = "write"
    /\ wres.kind = "Ok"
    /\ rb.kind = "none"
    /\ LET sec == Last(sections)
           tf == FixedSectEnum_try_from(Slice(out_buf, sec.start, sec.end),
                                        overflow_checks)
       IN  rb' = [kind |-> "done", tf |-> tf,
                  values |->
                    IF sec.variant = NibblePackedU64Medium
                    THEN NibblePackU64MedFixedSect_iter(
                             Bytes(out_buf, sec.start, sec.end))
                    ELSE IF sec.variant = NibblePackedU32Medium
                    THEN unpack_u32_section(Bytes(out_buf, sec.start, sec.end))
                    ELSE <<>>]
    /\ UNCHANGED <<overflow_checks, out_buf, out_cap, off, sections, wres, phase,
                   it_pos, it_end, items, it_res>>
    /\ UNCHANGED <<wvars, tvars>>

\* FixedSectIterator::new(&buf[0..off])
StartIter ==
    /\ phase = "write"
    /\ phase' = "iter"
    /\ it_pos' = 0
    /\ it_end' = off
    /\ items' = <<>>
    /\ it_res' = "none"
    /\ UNCHANGED <<overflow_checks, out_buf, out_cap, off, sections, wres, rb>>
    /\ UNCHANGED <<wvars, tvars>>

\* FixedSectIterator::new(&buf[..]) over the whole of a buffer that is no
\* longer than MidCap and holds nothing but zeros behind the written sections
StartIterWhole ==
    /\ phase = "write"
    /\ out_cap <= MidCap
    /\ BufLen(out_buf) <= off
    /\ phase' = "iter"
    /\ it_pos' = 0
    /\ it_end' = out_cap
    /\ items' = <<>>
    /\ it_res' = "none"
    /\ UNCHANGED <<overflow_checks, out_buf, out_cap, off, sections, wres, rb>>
    /\ UNCHANGED <<wvars, tvars>>

\* FixedSectIterator::next
FixedSectIterator_next ==
    /\ phase = "iter"
    /\ it_res # "Panic"
    /\ LET sl == Slice(out_buf, it_pos, it_end)
           r == FixedSectEnum_try_from(sl, overflow_checks)
       IN  IF r.kind = "Ok"
           THEN IF num_bytes(r) > sl.len
                THEN it_res' = "Panic" /\ UNCHANGED <<it_pos, items>>
                ELSE /\ it_res' = "Some"
                     /\ items' = Append(items, [variant |-> r.variant,
                                                encoded_bytes |-> r.encoded_bytes,
                                                start |-> it_pos, len |-> sl.len])
                     /\ it_pos' = it_pos + num_bytes(r)
           ELSE IF r.kind = "Panic"
           THEN it_res' = "Panic" /\ UNCHANGED <<it_pos, items>>
           ELSE it_res' = "None" /\ UNCHANGED <<it_pos, items>>
    /\ UNCHANGED <<overflow_checks, out_buf, out_cap, off, sections, wres, rb,
                   phase, it_end>>
    /\ UNCHANGED <<wvars, tvars>>

WriterIdle ==
    /\ write_buf = <<>>
    /\ cur_pos = 0
    /\ cur_header_pos = 0
    /\ max_elements_per_sect = 0
    /\ cur_header = [num_bytes |-> 0, num_elements |-> 0, typ |-> Null]
    /\ pc = "idle"
    /\ call_type = Null
    /\ bytes_left = 0
    /\ elements_left = 0
    /\ result = [kind |-> "none"]
    /\ pre = Snapshot
    /\ n_filler = 0
    /\ n_rollover = 0
    /\ first_resp = "none"
    /\ n_calls = 0

InitFixed ==
    /\ WriterIdle
    /\ TryFromIdle
    /\ overflow_checks \in BOOLEAN
    /\ out_cap \in FxCaps
    /\ out_buf = <<>>
    /\ off = 0
    /\ sections = <<>>
    /\ wres = [kind |-> "none"]
    /\ rb = [kind |-> "none"]
    /\ phase = "write"
    /\ it_pos = 0
    /\ it_end = 0
    /\ items = <<>>
    /\ it_res = "none"

NextFixed ==
    \/ WriteNull
    \/ \E pat \in Patterns : WriteU64(pat)
    \/ \E pat \in Patterns : WriteU32(pat)
    \/ ReadBack
    \/ StartIter
    \/ StartIterWhole
    \/ FixedSectIterator_next

SpecFixed == InitFixed /\ [][NextFixed]_vars

----------------------------------------------------------------------------
\* The Medium try_from constructors applied to slices of any length

MaxNear == 4          \* lengths and length fields within MaxNear of a boundary

Near(c) == {c + d : d \in 0..(2 * MaxNear)}

TfLens == (0..MaxNear) \cup Near(U16Max + 1 - MaxNear) \cup Near(2 * (U16Max + 1) - MaxNear)

TfFields == (0..MaxNear) \cup ((U16Max - MaxNear)..U16Max)

\* a slice of n bytes that starts with the tag and the little-endian field
SliceOf(n, tag, field) ==
    [len |-> n, head |-> SubSeq(<<tag>> \o U16LE(field), 1, Min(3, n))]

InitTryFrom ==
    /\ WriterIdle
    /\ FixedIdle_NoProfile
    /\ overflow_checks \in BOOLEAN
    /\ tf_kind \in {NibblePackedU64Medium, NibblePackedU32Medium}
    /\ \E n \in TfLens, field \in TfFields : tf_slice = SliceOf(n, tf_kind, field)
    /\ tf_res = [kind |-> "none"]

ApplyU64TryFrom ==
    /\ tf_res.kind = "none"
    /\ tf_kind = NibblePackedU64Medium
    /\ tf_res' = NibblePackU64MedFixedSect_try_from(tf_slice, overflow_checks)
    /\ UNCHANGED <<tf_slice, tf_kind>>
    /\ UNCHANGED <<wvars, fvars>>

ApplyU32TryFrom ==
    /\ tf_res.kind = "none"
    /\ tf_kind = NibblePackedU32Medium
    /\ tf_res' = NibblePackU32MedFixedSect_try_from(tf_slice, overflow_checks)
    /\ UNCHANGED <<tf_slice, tf_kind>>
    /\ UNCHANGED <<wvars, fvars>>

NextTryFrom == ApplyU64TryFrom \/ ApplyU32TryFrom

SpecTryFrom == InitTryFrom /\ [][NextTryFrom]_vars

----------------------------------------------------------------------------
\* FixedSectEnum::try_from applied to slices of any length and first byte

TfTags == {Null, NibblePackedU64Medium, NibblePackedU32Medium, 3, 255}

InitEnumTryFrom ==
    /\ WriterIdle
    /\ FixedIdle_NoProfile
    /\ overflow_checks \in BOOLEAN
    /\ tf_kind \in TfTags
    /\ \E n \in TfLens, field \in TfFields : tf_slice = SliceOf(n, tf_kind, field)
    /\ tf_res = [kind |-> "none"]

ApplyEnumTryFrom ==
    /\ tf_res.kind = "none"
    /\ tf_res' = FixedSectEnum_try_from(tf_slice, overflow_checks)
    /\ UNCHANGED <<tf_slice, tf_kind>>
    /\ UNCHANGED <<wvars, fvars>>

NextEnumTryFrom == ApplyEnumTryFrom

SpecEnumTryFrom == InitEnumTryFrom /\ [][NextEnumTryFrom]_vars

----------------------------------------------------------------------------
\* Reading the written prefix back as a chain of sections

\* the header offsets met when skipping 5 + num_bytes from pos; -1 marks a
\* chain that does not land exactly on limit
RECURSIVE SectionStarts(_, _, _)
SectionStarts(buf, pos, limit) ==
    IF pos = limit THEN <<>>
    ELSE IF pos + HeaderLen > limit THEN <<-1>>
    ELSE <<pos>> \o SectionStarts(buf, pos + HeaderLen + ReadU16LE(buf, pos), limit)

WellChained(starts) == \A i \in 1..Len(starts) : starts[i] # -1

Returned(k) == pc = "idle" /\ result.kind = k

HeaderErr == Returned("Err") /\ result.err = FromScrollError

\* C1: after every add_64kb call that returns Ok, the prefix [0, cur_pos) of
\* the buffer is exactly a concatenation of sections: skipping 5 + num_bytes
\* from offset 0 lands exactly on cur_pos, the last header met is the one at
\* cur_header_pos, it equals the in-memory header, and
\* cur_pos = cur_header_pos + 5 + header.num_bytes.
C1_PrefixIsSections ==
    Returned("Ok") =>
        LET starts == SectionStarts(write_buf, 0, cur_pos)
        IN  /\ WellChained(starts)
            /\ Len(starts) > 0
            /\ starts[Len(starts)] = cur_header_pos
            /\ PreadHeader(write_buf, cur_header_pos) = cur_header
            /\ cur_pos = cur_header_pos + HeaderLen + cur_header.num_bytes

\* a call that rolled over, returned Ok and left two sections with payload
C1_Witness ==
    /\ Returned("Ok")
    /\ n_rollover = 1
    /\ cur_header.num_bytes > 0
    /\ Len(SectionStarts(write_buf, 0, cur_pos)) = 2
    /\ ReadU16LE(write_buf, 0) > 0

\* C2: within one add_64kb call the filler is invoked at most twice and at
\* most one section header is opened by rollover.
C2_OneShotRollover == n_filler <= 2 /\ n_rollover <= 1

SameWriterState ==
    /\ cur_pos = pre.cur_pos
    /\ cur_header_pos = pre.cur_header_pos
    /\ cur_header = pre.cur_header

OtherErr == Returned("Err") /\ result.err = "Other"

\* C3 as claimed: whenever a call ends with the filler's error other than
\* NotEnoughSpace, cur_pos, cur_header_pos and the in-memory header are what
\* they were before the call, also on a freshly constructed writer.
C3_Original == OtherErr => SameWriterState

\* C3 amended: when the first answer of the filler is an error other than
\* NotEnoughSpace, the call returns that error; on a writer with a section
\* open the writer state is what it was before the call, and on a freshly
\* constructed writer the call has opened the first section before asking
\* the filler, leaving cur_pos = 5, cur_header_pos = 0 and the header of an
\* empty section of the call's sect_type.
C3_OtherErrNoMutationOnceOpen ==
    (pc = "idle" /\ first_resp = "Other") =>
        /\ OtherErr
        /\ pre.cur_pos # 0 => SameWriterState
        /\ pre.cur_pos = 0 =>
              /\ cur_pos = HeaderLen
              /\ cur_header_pos = 0
              /\ cur_header = [num_bytes |-> 0, num_elements |-> 0, typ |-> call_type]

\* the error came from a call on a writer whose section already held payload
C3_Witness ==
    /\ OtherErr
    /\ first_resp = "Other"
    /\ pre.cur_pos # 0
    /\ pre.cur_header.num_bytes > 0
    /\ call_type # pre.cur_header.typ

RECURSIVE SumNumBytes(_, _)
SumNumBytes(its, n) == IF n = 0 THEN 0 ELSE num_bytes(its[n]) + SumNumBytes(its, n - 1)

IterFinished == phase = "iter" /\ it_res \in {"None", "Panic"}

\* C4: once FixedSectIterator over buf[0..total] has finished, it has yielded
\* exactly one item per section written, in write order and with the
\* matching variant, and the num_bytes() of the items add up to total, also
\* when total is 65536 or more.
C4_IteratorConservation ==
    (IterFinished /\ it_end = off) =>
        /\ it_res = "None"
        /\ Len(items) = Len(sections)
        /\ \A i \in 1..Len(items) :
              /\ items[i].variant = sections[i].variant
              /\ items[i].start = sections[i].start
        /\ SumNumBytes(items, Len(items)) = off

\* C5: a Medium try_from on a slice of any length whose bytes 1..3 hold L
\* succeeds with encoded_bytes = L exactly when the slice has 3 bytes or more
\* and 3 + L <= len(slice) in unbounded integers, and fails otherwise.
C5_TryFromExact ==
    tf_res.kind # "none" =>
        IF tf_slice.len >= 3 /\ 3 + ReadU16LE(tf_slice.head, 1) <= tf_slice.len
        THEN /\ tf_res.kind = "Ok"
             /\ tf_res.encoded_bytes = ReadU16LE(tf_slice.head, 1)
             /\ tf_res.variant = tf_kind
        ELSE tf_res.kind = "Err"

ReadBackOf(variant) ==
    /\ phase = "write"
    /\ rb.kind = "done"
    /\ Last(sections).variant = variant

\* C8: what iter() yields over a NibblePackU64MedFixedSect section just
\* written is exactly the 256 u64 values given to write, in order; what
\* unpack_u32_section yields over a NibblePackU32MedFixedSect section just
\* written is exactly the 256 u32 values given to write, in order.
C8_RoundTrip ==
    /\ ReadBackOf(NibblePackedU64Medium) =>
          rb.values = Values(Last(sections).pat, U64Bytes)
    /\ ReadBackOf(NibblePackedU32Medium) =>
          rb.values = [kind |-> "Ok", values |-> Values(Last(sections).pat, U32Bytes)]

\* a section of values of differing widths, written at an offset other than 0
\* behind a section of the other width, has been read back
C8_Witness ==
    /\ ReadBackOf(NibblePackedU64Medium)
    /\ Last(sections).pat = "mixed"
    /\ Last(sections).start > 3
    /\ sections[1].variant = NibblePackedU32Medium
    /\ sections[1].pat = "ramp"

WroteMedium ==
    /\ phase = "write"
    /\ wres.kind = "Ok"
    /\ Last(sections).variant # Null

\* C9: after a successful Medium write at offset o returning new_offset, the
\* byte at o is the variant's tag, the little-endian u16 at o + 1 is
\* new_offset - o - 3 and at most 65535, and try_from on the section's bytes
\* gives num_bytes() = new_offset - o.
C9_LengthField ==
    WroteMedium =>
        LET sec == Last(sections)
        IN  /\ wres.off = sec.end
            /\ BufAt(out_buf, sec.start) = sec.variant
            /\ ReadU16LE(Bytes(out_buf, sec.start, sec.start + 3), 1)
                  = sec.end - sec.start - 3
            /\ sec.end - sec.start - 3 <= U16Max
            /\ rb.kind = "done" =>
                  /\ rb.tf.kind = "Ok"
                  /\ rb.tf.variant = sec.variant
                  /\ num_bytes(rb.tf) = sec.end - sec.start

\* a section whose length field needs both bytes, written at an offset other
\* than 0, has been read back
C9_Witness ==
    /\ WroteMedium
    /\ rb.kind = "done"
    /\ Last(sections).start > 0
    /\ Last(sections).end - Last(sections).start - 3 > 255

\* C6: header.num_elements never exceeds max_elements_per_sect, in memory
\* and in every header of the written chain; the budget handed to the filler
\* is what is left under the cap, and a section opened by rollover starts
\* with no elements and the whole cap as budget.
C6_CapEnforcement ==
    /\ cur_header.num_elements <= max_elements_per_sect
    /\ LET starts == SectionStarts(write_buf, 0, cur_pos)
       IN  \A i \in 1..Len(starts) :
              starts[i] # -1 =>
                  ReadU16LE(write_buf, starts[i] + 2) <= max_elements_per_sect
    /\ pc = "filler" =>
          /\ elements_left >= 0
          /\ cur_header.num_elements + elements_left = max_elements_per_sect
    /\ (pc = "filler" /\ n_rollover > 0) =>
          /\ cur_header.num_elements = 0
          /\ elements_left = max_elements_per_sect

\* a full section was left behind by rollover and the new one took elements
C6_Witness ==
    /\ Returned("Ok")
    /\ n_rollover = 1
    /\ max_elements_per_sect > 0
    /\ ReadU16LE(write_buf, 2) = max_elements_per_sect
    /\ cur_header_pos > 0
    /\ cur_header.num_elements = max_elements_per_sect

\* C7: when add_64kb fails because a section header cannot be written while
\* a section is present, cur_pos, cur_header_pos and the in-memory header
\* still describe a section whose header is stored in the buffer.
C7_HeaderFailureKeepsInvariant ==
    (HeaderErr /\ cur_pos # 0) =>
        /\ cur_pos = cur_header_pos + HeaderLen + cur_header.num_bytes
        /\ cur_header_pos + HeaderLen <= Len(write_buf)
        /\ PreadHeader(write_buf, cur_header_pos) = cur_header

\* C10: on a freshly constructed writer, a call whose filler answers
\* Ok((b, e)) within its budgets returns Ok((b, e)), leaves cur_pos = 5 + b
\* and, at offset 0, the header (b, e, sect_type) followed by the b bytes the
\* filler stored.
C10_FirstAdd ==
    (pc = "idle" /\ n_calls = 1 /\ first_resp = "Ok") =>
        /\ result.kind = "Ok"
        /\ cur_pos = HeaderLen + result.bytes
        /\ cur_header_pos = 0
        /\ PreadHeader(write_buf, 0) =
              [num_bytes |-> result.bytes, num_elements |-> result.elems,
               typ |-> call_type]
        /\ \A i \in 1..result.bytes : write_buf[HeaderLen + i] \in FillBytes

\* a first call that stored payload and elements under a non-Null type
C10_Witness ==
    /\ pc = "idle" /\ n_calls = 1 /\ first_resp = "Ok"
    /\ result.kind = "Ok"
    /\ result.bytes >= 2
    /\ result.elems = MaxCap
    /\ call_type = NibblePackedU32Medium
    /\ cur_pos < Len(write_buf)

\* C11: on a buffer shorter than the 5 header bytes the first add_64kb of a
\* freshly constructed writer returns the header write's error
\* (NotEnoughSpace), the filler is never invoked and cur_pos stays 0.
C11_ShortBuffer ==
    (Len(write_buf) < HeaderLen /\ n_calls >= 1) =>
        /\ pc = "idle"
        /\ result = [kind |-> "Err", err |-> "NotEnoughSpace"]
        /\ n_filler = 0
        /\ first_resp = "none"
        /\ cur_pos = 0

\* the first call on a buffer that holds four of the five header bytes
C11_Witness ==
    /\ Len(write_buf) = HeaderLen - 1
    /\ n_calls = 1
    /\ pc = "idle"
    /\ result.kind = "Err"


\* the bytes behind the write position when the filler was first invoked
SpaceAtCall == Len(write_buf) - (IF pre.cur_pos = 0 THEN HeaderLen ELSE pre.cur_pos)

\* the bytes behind the write position
SpaceLeft == Len(write_buf) - cur_pos

\* C12: every add_64kb call terminates whatever the filler answers: each
\* answer of the filler either ends the call (with the filler's result, the
\* header write's error, or the assert) or is a rollover that leaves at
\* least 5 bytes less behind the write position, which never runs past the
\* buffer; so the filler is invoked at most once more than the number of
\* 5-byte headers that fit in the space left when the call began.
C12_Terminates ==
    [][/\ pc' = "filler" =>
             /\ n_filler' <= 1 + SpaceAtCall' \div HeaderLen
             /\ n_rollover' = n_filler' - 1
             /\ SpaceLeft' >= 0
       /\ pc = "filler" =>
             \/ /\ pc' \in {"idle", "panicked"}
                /\ result'.kind \in {"Ok", "Err", "Panic"}
                /\ n_filler' = n_filler
             \/ /\ pc' = "filler"
                /\ first_resp' = (IF n_filler = 1 THEN "NotEnoughSpace" ELSE first_resp)
                /\ n_filler' = n_filler + 1
                /\ Len(write_buf') = Len(write_buf)
                /\ SpaceLeft' + HeaderLen <= SpaceLeft]_vars

\* a call that rolled over as often as its buffer allowed and then ended
\* with the error of the header that no longer fit
C12_Witness ==
    /\ HeaderErr
    /\ n_rollover = 2
    /\ n_filler = 1 + SpaceAtCall \div HeaderLen
    /\ first_resp = "NotEnoughSpace"


\* the payload bytes the 256 values of pattern pat take once packed
PackedLen(pat, width) ==
    LET values == [i \in 1..FIXED_LEN |-> Widen(Values(pat, width)[i])]
    IN  SumTo([g \in 1..(FIXED_LEN \div GroupLen) |->
                 Len(Pack8([k \in 1..GroupLen |-> values[(g - 1) * GroupLen + k]]))],
              FIXED_LEN \div GroupLen)

WidthOf(variant) == IF variant = NibblePackedU64Medium THEN U64Bytes ELSE U32Bytes

AskedMedium == phase = "write" /\ wres.kind # "none" /\ wres.variant # Null

\* C13: a Medium write at offset o fails with NotEnoughSpace exactly when
\* the buffer cannot hold the tag, the length field and the whole payload
\* (or the payload is longer than 65535 bytes); a failed write returns no new
\* offset and leaves the two bytes of the length field at o + 1 .. o + 3 as
\* they were before the call.
C13_MediumWriteFails ==
    AskedMedium =>
        LET payload == PackedLen(wres.pat, WidthOf(wres.variant))
            fits == wres.at + 3 + payload <= out_cap /\ payload <= U16Max
        IN  /\ wres.kind = "Err" <=> ~fits
            /\ wres.kind = "Err" =>
                  /\ wres.err = "NotEnoughSpace"
                  /\ off = wres.at
                  /\ Bytes(out_buf, wres.at + 1, wres.at + 3) = wres.len_before

\* a write failed after storing its tag and part of its payload, at an
\* offset where an earlier failed write had left bytes in the length field
C13_Witness ==
    /\ AskedMedium
    /\ wres.kind = "Err"
    /\ wres.at > 0
    /\ wres.len_before # <<0, 0>>
    /\ BufAt(out_buf, wres.at) = wres.variant
    /\ wres.at + 3 < out_cap


\* C14: FixedSectEnum::try_from on a slice s: an empty s gives
\* InputTooShort; a first byte outside {0, 1, 2} gives InvalidSectionType of
\* that byte; 0 gives the Null variant with num_bytes() = 1; 1 and 2 give the
\* U64 and U32 variant with num_bytes() = 3 + L when the declared length L
\* fits the slice (3 + L <= len(s)) and an error when it does not; every
\* variant returned has num_elements() = 256.
C14_EnumClassification ==
    tf_res.kind # "none" =>
        IF tf_slice.len = 0
        THEN tf_res = [kind |-> "Err", err |-> "InputTooShort"]
        ELSE IF tf_slice.head[1] \notin {0, 1, 2}
        THEN tf_res = [kind |-> "Err", err |-> "InvalidSectionType",
                       byte |-> tf_slice.head[1]]
        ELSE IF tf_slice.head[1] = 0
        THEN /\ tf_res.kind = "Ok"
             /\ tf_res.variant = Null
             /\ num_bytes(tf_res) = 1
             /\ num_elements(tf_res) = 256
        ELSE IF tf_slice.len >= 3 /\ 3 + ReadU16LE(tf_slice.head, 1) <= tf_slice.len
        THEN /\ tf_res.kind = "Ok"
             /\ tf_res.variant = tf_slice.head[1]
             /\ num_bytes(tf_res) = 3 + ReadU16LE(tf_slice.head, 1)
             /\ num_elements(tf_res) = 256
        ELSE tf_res.kind = "Err"


\* a step of the caller that is a NullFixedSect::write
NullWriteStep ==
    /\ phase = "write" /\ phase' = "write"
    /\ rb'.kind = "none"
    /\ wres'.kind # "none"
    /\ wres'.variant = Null

AllNull(secs) == \A i \in 1..Len(secs) : secs[i].variant = Null

\* C15: NullFixedSect::write at offset o succeeds exactly when o < len(out);
\* it then returns o + 1, out[o] is 0 and no other byte has changed; when it
\* fails nothing has changed. Null sections written one after the other are
\* iterated as separate Null items of 1 byte and 256 elements each.
C15_NullWrite ==
    [][/\ NullWriteStep =>
             /\ wres'.at = off
             /\ wres'.kind = "Ok" <=> off < out_cap
             /\ wres'.kind = "Ok" =>
                   /\ wres'.off = off + 1
                   /\ off' = off + 1
                   /\ BufAt(out_buf', off) = 0
                   /\ \A i \in 0..(Max(BufLen(out_buf), BufLen(out_buf')) - 1) :
                         i # off => BufAt(out_buf', i) = BufAt(out_buf, i)
             /\ wres'.kind = "Err" =>
                   /\ out_buf' = out_buf
                   /\ off' = off
                   /\ sections' = sections
       /\ (phase' = "iter" /\ it_end' = off' /\ it_res' = "None" /\ AllNull(sections')) =>
             /\ Len(items') = Len(sections')
             /\ \A i \in 1..Len(items') :
                   /\ items'[i].variant = Null
                   /\ items'[i].start = i - 1
                   /\ num_bytes(items'[i]) = 1
                   /\ num_elements(items'[i]) = 256]_vars

\* two Null sections written over what a failed write had left in the
\* buffer, and iterated
C15_Witness ==
    /\ phase = "iter"
    /\ it_res = "None"
    /\ Len(sections) = 2
    /\ AllNull(sections)
    /\ Len(items) = 2
    /\ BufLen(out_buf) > 2


\* C16: the section never holds more than 65535 bytes and cur_pos never
\* passes the end of the buffer; whenever the filler is invoked its window
\* starts at cur_pos and is exactly B = min(65535 - num_bytes,
\* len(buf) - cur_pos) bytes, which lies inside the buffer and cannot take
\* the section past 65535 bytes, and its element budget is exactly
\* E = max_elements_per_sect - num_elements, which is never negative.
C16_Budgets ==
    /\ cur_pos <= Len(write_buf)
    /\ cur_header.num_bytes <= 65535
    /\ pc = "filler" =>
          /\ bytes_left = Min(65535 - cur_header.num_bytes, Len(write_buf) - cur_pos)
          /\ bytes_left >= 0
          /\ cur_pos + bytes_left <= Len(write_buf)
          /\ cur_header.num_bytes + bytes_left <= 65535
          /\ elements_left = max_elements_per_sect - cur_header.num_elements
          /\ elements_left >= 0

\* the filler is invoked on a section that is full at 65535 bytes while the
\* buffer still has room behind it
C16_Witness ==
    /\ pc = "filler"
    /\ cur_header.num_bytes = 65535
    /\ bytes_left = 0
    /\ Len(write_buf) - cur_pos = HeaderLen
    /\ elements_left = 0
    /\ max_elements_per_sect > 0


\* where the window of a call's first filler invocation began
FirstWindow == IF pre.cur_pos = 0 THEN HeaderLen ELSE pre.cur_pos

\* C17: in every state of the writer a call can be made in, also after an
\* earlier call returned an error, a filler that answers Ok((b, e)) within
\* its window and element budget makes add_64kb return Ok((b, e)): the
\* rewrite of the section header succeeds, and it does not overwrite the
\* payload bytes the filler has just stored.
C17_OkAlwaysCommits ==
    (pc = "idle" /\ first_resp = "Ok") =>
        /\ result.kind = "Ok"
        /\ cur_pos - FirstWindow = result.bytes
        /\ \A i \in (FirstWindow + 1)..cur_pos : write_buf[i] \in FillBytes


\* C18: a rollover seals the section before it: the header of the new
\* section is written at the old cur_pos with typ = sect_type and zero
\* counts before the filler is asked again, leaving every byte below the old
\* cur_pos as it was; and no step of any call modifies a byte below
\* cur_header_pos, which never moves back.
C18_RolloverSeals ==
    [][/\ (pc = "filler" /\ n_rollover' = n_rollover + 1) =>
             /\ pc' = "filler"
             /\ cur_header_pos' = cur_pos
             /\ cur_pos' = cur_pos + HeaderLen
             /\ cur_header' = [num_bytes |-> 0, num_elements |-> 0, typ |-> call_type]
             /\ PreadHeader(write_buf', cur_pos) = cur_header'
             /\ \A i \in 1..cur_pos : write_buf'[i] = write_buf[i]
       /\ cur_header_pos' >= cur_header_pos
       /\ \A i \in 1..cur_header_pos : write_buf'[i] = write_buf[i]]_vars

\* a call of another type found the section full of an earlier call's
\* payload, rolled over and stored its own payload behind the sealed section
C18_Witness ==
    /\ Returned("Ok")
    /\ n_calls = 2
    /\ n_rollover = 1
    /\ result.bytes > 0
    /\ cur_header_pos > HeaderLen
    /\ cur_header.typ = call_type
    /\ PreadHeader(write_buf, 0).typ # call_type
    /\ PreadHeader(write_buf, 0).num_bytes = cur_header_pos - HeaderLen


\* the offset behind the items yielded so far
BehindItems == IF items = <<>> THEN 0 ELSE Last(items).start + num_bytes(Last(items))

\* C19: every item the iterator yields is a variant together with a slice
\* that begins at the tag byte of its section and holds at least
\* num_bytes() bytes, and the cursor moves on by exactly num_bytes(): the
\* next item starts at the first byte behind the section, so the items lie
\* on the sections as they were written.
C19_ItemsAreSections ==
    phase = "iter" =>
        /\ it_pos = BehindItems
        /\ \A i \in 1..Len(items) :
              /\ items[i].start =
                    (IF i = 1 THEN 0 ELSE items[i - 1].start + num_bytes(items[i - 1]))
              /\ BufAt(out_buf, items[i].start) = items[i].variant
              /\ items[i].len = it_end - items[i].start
              /\ items[i].len >= num_bytes(items[i])
              /\ i <= Len(sections) =>
                    /\ items[i].variant = sections[i].variant
                    /\ items[i].start = sections[i].start
                    /\ items[i].start + num_bytes(items[i]) = sections[i].end

\* a u32 section and the u64 section behind it have both been yielded
C19_Witness ==
    /\ phase = "iter"
    /\ it_res = "Some"
    /\ Len(items) = 2
    /\ items[1].variant = NibblePackedU32Medium
    /\ items[2].variant = NibblePackedU64Medium
    /\ items[2].start > 3
    /\ it_pos = it_end

\* the iterator runs over the whole buffer, whose bytes behind the written
\* sections were never written
WholeOverZeros == phase = "iter" /\ it_end = out_cap /\ BufLen(out_buf) <= off

\* C20 as claimed: iterating the whole buffer, trailing zero bytes included,
\* yields exactly the written sections and then ends.
C20_Original ==
    WholeOverZeros =>
        /\ Len(items) <= Len(sections)
        /\ it_res = "None" => Len(items) = Len(sections)

\* C20 amended: a trailing zero byte is the tag of a Null section, so once
\* the iterator over the whole buffer has yielded the written sections it
\* goes on to yield one Null item of 1 byte for every trailing zero byte and
\* ends only at the end of the buffer.
C20_TrailingZerosAreNull ==
    WholeOverZeros =>
        /\ \A i \in 1..Len(items) :
              i > Len(sections) =>
                  /\ items[i].variant = Null
                  /\ num_bytes(items[i]) = 1
                  /\ items[i].start = off + (i - Len(sections) - 1)
        /\ (it_res = "None" /\ Len(items) >= Len(sections)) =>
              /\ it_pos = out_cap
              /\ Len(items) = Len(sections) + (out_cap - off)

\* two Medium sections and every trailing byte behind them have been yielded
C20_Witness ==
    /\ WholeOverZeros
    /\ it_res = "None"
    /\ Len(sections) = 2
    /\ sections[1].variant = NibblePackedU64Medium
    /\ sections[2].variant = NibblePackedU32Medium
    /\ out_cap > off
    /\ Len(items) = 2 + (out_cap - off)


\* the typ byte of the header stored at 0-based offset pos, -1 where the
\* buffer ends before it
TypByteAt(buf, pos) == IF pos + HeaderLen <= Len(buf) THEN buf[pos + HeaderLen] ELSE -1

\* C21: the type of a section is fixed when it is opened: a call on a writer
\* with a section open opens nothing before it asks the filler, whatever its
\* sect_type; a filler that succeeds without rollover leaves cur_header_pos
\* and the typ of the open section as they were, in memory and in the
\* buffer; and a section opened by a first call or a rollover has the
\* call's sect_type.
C21_TypeFixedAtOpen ==
    [][/\ (pc = "idle" /\ cur_pos # 0) =>
             /\ cur_header' = cur_header
             /\ cur_header_pos' = cur_header_pos
             /\ write_buf' = write_buf
       /\ (pc = "filler" /\ pc' = "idle" /\ result'.kind = "Ok") =>
             /\ cur_header'.typ = cur_header.typ
             /\ cur_header_pos' = cur_header_pos
             /\ TypByteAt(write_buf', cur_header_pos) = cur_header.typ
             /\ TypByteAt(write_buf, cur_header_pos) = cur_header.typ
       /\ (pc' = "idle" /\ first_resp' = "Ok" /\ pre'.cur_pos # 0) =>
             /\ cur_header'.typ = pre'.cur_header.typ
             /\ cur_header_pos' = pre'.cur_header_pos
       /\ (pc' = "filler" /\ (n_rollover' > 0 \/ pre'.cur_pos = 0)) =>
             /\ cur_header'.typ = call_type'
             /\ TypByteAt(write_buf', cur_header_pos') = call_type']_vars

\* a call of another type has added payload to a section that already held
\* some, without rollover
C21_Witness ==
    /\ Returned("Ok")
    /\ first_resp = "Ok"
    /\ n_calls = 2
    /\ result.bytes > 0
    /\ pre.cur_header.num_bytes > 0
    /\ cur_header.typ # call_type
    /\ TypByteAt(write_buf, cur_header_pos) = cur_header.typ
    /\ cur_header.num_bytes = pre.cur_header.num_bytes + result.bytes


\* the remainder the iterator stands on is empty, starts with a byte that is
\* no section type, or starts a Medium section whose three header bytes or
\* declared payload reach past the end of the slice
MustEnd(buf, pos, end) ==
    \/ pos >= end
    \/ BufAt(buf, pos) \notin SectionTypes
    \/ /\ BufAt(buf, pos) # Null
       /\ \/ end - pos < 3
          \/ 3 + ReadU16LE(Bytes(buf, pos, pos + 3), 1) > end - pos

\* C22: FixedSectIterator always terminates and stays terminated: next()
\* never slices past the end of its slice, every item takes at least one
\* byte so at most len(slice) items are yielded, next() returns None exactly
\* when the remainder is empty, starts with an invalid tag or declares a
\* truncated payload, and after None the cursor stays where it is and every
\* later next() returns None too.
C22_IteratorTerminates ==
    [][(phase = "iter" /\ phase' = "iter") =>
          /\ it_res' # "Panic"
          /\ it_res' = "None" <=> MustEnd(out_buf, it_pos, it_end)
          /\ it_res' = "Some" =>
                /\ Len(items') = Len(items) + 1
                /\ num_bytes(Last(items')) >= 1
                /\ it_pos' = it_pos + num_bytes(Last(items'))
                /\ it_pos' <= it_end
                /\ Len(items') <= it_end
          /\ it_res' = "None" => (it_pos' = it_pos /\ items' = items)
          /\ it_res = "None" => it_res' = "None"]_vars


====
